---- MODULE Spec2Model ----
(***************************************************************************)
(* nengaweb (app.py): the address book, the yearly rollover (init_nextyear) *)
(* and the bulk status update of the card records, as a state machine over *)
(* the rows of the relational store.                                       *)
(*                                                                         *)
(* The store is SQLite reached through one module-level SQLAlchemy session *)
(* (app.py:43-46).  Foreign keys are declared but SQLite does not enforce  *)
(* them unless the connection asks for it, and the program never does;     *)
(* NOT NULL and PRIMARY KEY constraints are enforced.  A new row of a table *)
(* with an INTEGER PRIMARY KEY gets the largest id in the table plus one.  *)
(*                                                                         *)
(* The people table is left out: no handler that writes consults it, a     *)
(* person enters every write handler only as the person_id of the URL.     *)
(***************************************************************************)
EXTENDS Integers, FiniteSets, Sequences, TLC

\* ------------------------------------------------------------- bounds
MaxPeople == 2      \* person ids a request can name: 1..MaxPeople
MaxAddressId == 2   \* address_add is disabled once the next id passes this
MaxTick == 1        \* the clock advances at most this many years
MaxValue == 3       \* a submitted value is a decimal number 0..MaxValue
MaxTargetId == 2    \* record ids a bulk edit can name: 1..MaxTargetId
MaxEdits == 1       \* bulk edits that reach the store in one behaviour

VARIABLES
    addresses,        \* table addresses: set of [id, person_id]
    available,        \* table available_addresses: person_id -> address_id
    years,            \* table years: year -> lock
    nenga,            \* table nenga: set of [id, address_id, year, printing, received, mourning]
    now,              \* datetime.now().year
    pc,               \* init_nextyear's position: "idle" or "year_committed"
    nextyear,         \* init_nextyear's local variable (0 while idle)
    current_at_call,  \* history: year -> the addresses current when init_nextyear was called for it
    session,          \* the web application's session: "active" or "deactive"
    result,           \* how the last handler or command ended
    edits,            \* bulk edits that reached the store so far
    book,             \* the name and place columns of the addresses rows: address id -> form
    file              \* what is at the path genenga -o names

vars == <<addresses, available, years, nenga, now, pc, nextyear,
          current_at_call, session, result, edits, book, file>>

People == 1..MaxPeople

\* ------------------------------------------------------------ helpers
Max(S) == CHOOSE x \in S : \A y \in S : y <= x

\* SQLite's rowid for a new row: the largest one in the table plus one.
NextId(rows) == IF rows = {} THEN 1 ELSE Max({r.id : r \in rows}) + 1

AddressIds == {a.id : a \in addresses}

\* The test of Address.available left out.
NeverAvailable(aid) == FALSE

\* Address.available: the AvailableAddress row whose address_id is this address.
IsAvailable(aid) == \E p \in DOMAIN available : available[p] = aid

\* Address.nengas (the backref of Nenga.address).
NengasOf(aid) == {n \in nenga : n.address_id = aid}

NengaOfYear(y) == {n \in nenga : n.year = y}

\* No file at the output path.
NoFile == [exists |-> FALSE, rows |-> << >>]

\* No handler of the web application and no step of nextyear reads or writes
\* the name and place columns of an address once address_add has stored
\* them, and none touches the export's output file.  The specifications of
\* the store leave the columns out (book stays empty); the export has its own
\* specification, SpecExport, where book holds them.
ExportIdle == UNCHANGED <<book, file>>

\* ------------------------------------------------------------ Init
Init ==
    /\ addresses = {}
    /\ available = << >>
    /\ years = << >>
    /\ nenga = {}
    /\ now = 0
    /\ pc = "idle"
    /\ nextyear = 0
    /\ current_at_call = << >>
    /\ session = "active"
    /\ result = "none"
    /\ edits = 0
    /\ book = << >>
    /\ file = NoFile

\* ------------------------------------------------- the address store
\* session.query(Address).filter_by(person_id=person_id).all()
OwnAddresses(person_id) == {a \in addresses : a.person_id = person_id}

\* The row is only created, never re-pointed.
ActivatedOnce(person_id, aid) ==
    IF person_id \in DOMAIN available
    THEN available
    ELSE [p \in (DOMAIN available) \cup {person_id} |->
            IF p = person_id THEN aid ELSE available[p]]

\* The AvailableAddress row of person_id after it is pointed at address id aid:
\* the row is created when the person has none, and re-pointed otherwise.
Activated(person_id, aid) ==
    [p \in (DOMAIN available) \cup {person_id} |->
        IF p = person_id THEN aid ELSE available[p]]

\* A handler that touches the session after a flush has failed in it:
\* SQLAlchemy refuses every further use until rollback(), which is never called.
SessionRefuses ==
    /\ session = "deactive"
    /\ result' = "InvalidRequestError"
    /\ UNCHANGED <<addresses, available, years, nenga, now, pc, nextyear,
                   current_at_call, session, edits>>

\* The new address written over the person's addresses instead of added to
\* them.
address_add_in_place(person_id) ==
    /\ NextId(addresses) <= MaxAddressId
    /\ \/ SessionRefuses
       \/ /\ session = "active"
          /\ addresses' = (addresses \ OwnAddresses(person_id)) \cup
                {[id |-> NextId(addresses), person_id |-> person_id]}
          /\ result' = "redirect"
          /\ UNCHANGED <<available, years, nenga, now, pc, nextyear,
                         current_at_call, session, edits>>

\* POST /person/<person_id>/address/add
address_add(person_id) ==
    /\ NextId(addresses) <= MaxAddressId
    /\ \/ SessionRefuses
       \/ /\ session = "active"
          /\ addresses' = addresses \cup
                {[id |-> NextId(addresses), person_id |-> person_id]}
          /\ result' = "redirect"
          /\ UNCHANGED <<available, years, nenga, now, pc, nextyear,
                         current_at_call, session, edits>>

\* POST /person/<person_id>/address/action, action = "activate"
address_activate(person_id, chosen_id) ==
    \/ SessionRefuses
    \/ /\ session = "active"
       /\ available' =
            IF \E addr \in OwnAddresses(person_id) : addr.id = chosen_id
            THEN Activated(person_id, chosen_id)
            ELSE available
       /\ result' = "redirect"
       /\ UNCHANGED <<addresses, years, nenga, now, pc, nextyear,
                      current_at_call, session, edits>>

\* POST /person/<person_id>/address/action, action = "delete".
\* session.delete(addr) makes the flush set address_id of every row of
\* addr.nengas to NULL before it deletes the address; nenga.address_id is
\* NOT NULL, so with such a row the commit raises IntegrityError, the
\* transaction is rolled back and the session is left deactivated.
address_delete(person_id, chosen_id) ==
    \/ SessionRefuses
    \/ /\ session = "active"
       /\ chosen_id \notin AddressIds
       /\ result' = "NoResultFound"
       /\ UNCHANGED <<addresses, available, years, nenga, now, pc, nextyear,
                      current_at_call, session, edits>>
    \/ /\ session = "active"
       /\ chosen_id \in AddressIds
       /\ IsAvailable(chosen_id)
       /\ result' = "redirect"
       /\ UNCHANGED <<addresses, available, years, nenga, now, pc, nextyear,
                      current_at_call, session, edits>>
    \/ /\ session = "active"
       /\ chosen_id \in AddressIds
       /\ ~IsAvailable(chosen_id)
       /\ NengasOf(chosen_id) # {}
       /\ result' = "IntegrityError"
       /\ session' = "deactive"
       /\ UNCHANGED <<addresses, available, years, nenga, now, pc, nextyear,
                      current_at_call, edits>>
    \/ /\ session = "active"
       /\ chosen_id \in AddressIds
       /\ ~IsAvailable(chosen_id)
       /\ NengasOf(chosen_id) = {}
       /\ addresses' = {a \in addresses : a.id # chosen_id}
       /\ result' = "redirect"
       /\ UNCHANGED <<available, years, nenga, now, pc, nextyear,
                      current_at_call, session, edits>>

\* The web application is started again: the module creates a fresh session.
restart ==
    /\ session = "deactive"
    /\ session' = "active"
    /\ result' = "none"
    /\ UNCHANGED <<addresses, available, years, nenga, now, pc, nextyear,
                   current_at_call, edits>>

\* --------------------------------------------------------- the rollover
\* The check made against the running year instead of the next one.
AlreadyInitializedThisYear(y) == (y - 1) \in DOMAIN years

\* session.query(Year).filter_by(year=nextyear).count() != 0
AlreadyInitialized(y) == y \in DOMAIN years

\* session.query(Address).join(Address.available).order_by(Address.id).all()
Candidates == {a.id : a \in {x \in addresses : IsAvailable(x.id)}}

\* The Nenga row init_nextyear builds for one candidate.
NewNenga(nid, aid, y) ==
    [id |-> nid, address_id |-> aid, year |-> y,
     printing |-> 1, received |-> 0, mourning |-> 0]

\* The rows the loop adds: one per candidate, ids handed out in the order of
\* the candidates' ids.
NewNengas(y) ==
    {NewNenga(NextId(nenga) + Cardinality({c \in Candidates : c < aid}), aid, y) :
        aid \in Candidates}

\* python app.py nextyear, up to the first commit (lines 134-142).
init_nextyear_year ==
    /\ pc = "idle"
    /\ IF AlreadyInitialized(now + 1)
       THEN /\ result' = "ValueError: already initialized"
            /\ UNCHANGED <<addresses, available, years, nenga, now, pc, nextyear,
                           current_at_call, session, edits>>
       ELSE /\ years' = ((now + 1) :> 0) @@ years
            /\ nextyear' = now + 1
            /\ pc' = "year_committed"
            /\ current_at_call' = ((now + 1) :> Candidates) @@ current_at_call
            /\ result' = "running"
            /\ UNCHANGED <<addresses, available, nenga, now, session, edits>>

\* python app.py nextyear, from the candidates' query to the second commit
\* (lines 144-154).
init_nextyear_nenga ==
    /\ pc = "year_committed"
    /\ nenga' = nenga \cup NewNengas(nextyear)
    /\ pc' = "idle"
    /\ nextyear' = 0
    /\ result' = "done"
    /\ UNCHANGED <<addresses, available, years, now, current_at_call, session, edits>>

\* The command dies between its two commits (it is killed, or the second
\* commit raises): the Year row of the first commit stays.
init_nextyear_fail ==
    /\ pc = "year_committed"
    /\ pc' = "idle"
    /\ nextyear' = 0
    /\ result' = "failed"
    /\ UNCHANGED <<addresses, available, years, nenga, now, current_at_call,
                   session, edits>>

\* ------------------------------------------------------ the bulk edit
\* The attributes of the class Nenga that Query.update accepts as a column and
\* that a bulkaction can name: action.split("_") must give two parts, so no
\* name with an underscore in it (address_id, last_update) gets through.
NengaColumns == {"id", "year", "printing", "received", "mourning"}

\* int(value): value is a string of decimal digits, here of at most one digit;
\* int("") raises ValueError.
IsInt(value) == Len(value) = 1
IntOf(value) == value[1]

\* session.query(Nenga).filter(Nenga.id.in_(target_ids))
Targets(target_ids) == {n \in nenga : n.id \in target_ids}

\* UPDATE nenga SET id = v WHERE id IN (...) breaks the primary key when it
\* gives a row the id of another row.
BreaksPrimaryKey(target_ids, column_name, v) ==
    /\ column_name = "id"
    /\ \/ Cardinality(Targets(target_ids)) > 1
       \/ \E n \in Targets(target_ids) :
            \E m \in nenga : m.id # n.id /\ m.id = v

\* The update without the filter on the record ids.
UpdatedAll(target_ids, column_name, v) ==
    {[n EXCEPT ![column_name] = v] : n \in nenga}

\* The filter inverted: notin_ for in_.
UpdatedOthers(target_ids, column_name, v) ==
    {IF n.id \notin target_ids THEN [n EXCEPT ![column_name] = v] ELSE n : n \in nenga}

\* targets.update({column: int(value)}, synchronize_session=False)
Updated(target_ids, column_name, v) ==
    {IF n.id \in target_ids THEN [n EXCEPT ![column_name] = v] ELSE n : n \in nenga}

\* POST /nenga/list/<year>: action is request.forms.bulkaction after
\* split("_"), target_ids the submitted record ids.
nenga_bulk_edit(year, action, target_ids) ==
    /\ edits < MaxEdits
    /\ \/ /\ Len(action) # 2
          /\ result' = "ValueError"
          /\ UNCHANGED <<addresses, available, years, nenga, now, pc, nextyear,
                         current_at_call, session, edits>>
       \/ /\ Len(action) = 2
          /\ action[1] \notin NengaColumns
          /\ result' = "AttributeError"
          /\ UNCHANGED <<addresses, available, years, nenga, now, pc, nextyear,
                         current_at_call, session, edits>>
       \/ /\ Len(action) = 2
          /\ action[1] \in NengaColumns
          /\ ~IsInt(action[2])
          /\ result' = "ValueError"
          /\ UNCHANGED <<addresses, available, years, nenga, now, pc, nextyear,
                         current_at_call, session, edits>>
       \/ /\ Len(action) = 2
          /\ action[1] \in NengaColumns
          /\ IsInt(action[2])
          /\ SessionRefuses
       \/ /\ Len(action) = 2
          /\ action[1] \in NengaColumns
          /\ IsInt(action[2])
          /\ session = "active"
          /\ BreaksPrimaryKey(target_ids, action[1], IntOf(action[2]))
          /\ result' = "IntegrityError"
          /\ UNCHANGED <<addresses, available, years, nenga, now, pc, nextyear,
                         current_at_call, session, edits>>
       \/ /\ Len(action) = 2
          /\ action[1] \in NengaColumns
          /\ IsInt(action[2])
          /\ session = "active"
          /\ ~BreaksPrimaryKey(target_ids, action[1], IntOf(action[2]))
          /\ nenga' = Updated(target_ids, action[1], IntOf(action[2]))
          /\ edits' = edits + 1
          /\ result' = "redirect"
          /\ UNCHANGED <<addresses, available, years, now, pc, nextyear,
                         current_at_call, session>>

\* What a request can submit.
ColumnNames == NengaColumns \cup {"bogus"}
Values == {<< >>} \cup {<<d>> : d \in 0..MaxValue}
BulkActions == {<<c, v>> : c \in ColumnNames, v \in Values} \cup {<<"bogus">>}
TargetSets == SUBSET (1..MaxTargetId)
UrlYears == 1..(MaxTick + 1)

\* The clock.
Tick ==
    /\ now < MaxTick
    /\ now' = now + 1
    /\ UNCHANGED <<addresses, available, years, nenga, pc, nextyear,
                   current_at_call, session, result, edits>>

\* One writer at a time: the web application handles no writing request
\* while the nextyear command runs.  What the store holds between the
\* command's two commits is the state with pc = "year_committed".
Next ==
    \/ Tick /\ ExportIdle
    \/ pc = "idle" /\ \E p \in People : address_add(p) /\ ExportIdle
    \/ pc = "idle" /\ \E p \in People, a \in 1..MaxAddressId : address_activate(p, a) /\ ExportIdle
    \/ pc = "idle" /\ \E p \in People, a \in 1..MaxAddressId : address_delete(p, a) /\ ExportIdle
    \/ pc = "idle" /\ \E y \in UrlYears, act \in BulkActions, t \in TargetSets :
            nenga_bulk_edit(y, act, t) /\ ExportIdle
    \/ restart /\ ExportIdle
    \/ init_nextyear_year /\ ExportIdle
    \/ init_nextyear_nenga /\ ExportIdle
    \/ init_nextyear_fail /\ ExportIdle

Spec == Init /\ [][Next]_vars
\* The address book and the rollover alone: every operation but the bulk edit.
NextBook ==
    \/ Tick /\ ExportIdle
    \/ pc = "idle" /\ \E p \in People : address_add(p) /\ ExportIdle
    \/ pc = "idle" /\ \E p \in People, a \in 1..MaxAddressId : address_activate(p, a) /\ ExportIdle
    \/ pc = "idle" /\ \E p \in People, a \in 1..MaxAddressId : address_delete(p, a) /\ ExportIdle
    \/ restart /\ ExportIdle
    \/ init_nextyear_year /\ ExportIdle
    \/ init_nextyear_nenga /\ ExportIdle
    \/ init_nextyear_fail /\ ExportIdle

SpecBook == Init /\ [][NextBook]_vars

\* Year.lock is 0 (editable) or 1 (not editable).  init_nextyear writes 0 and
\* nothing in the program writes the column again: a year is locked by an
\* UPDATE on the database file from outside the program.
lock_year(y) ==
    /\ y \in DOMAIN years
    /\ years[y] = 0
    /\ years' = [years EXCEPT ![y] = 1]
    /\ UNCHANGED <<addresses, available, nenga, now, pc, nextyear,
                   current_at_call, session, result, edits>>

\* The program on a database whose years can be locked.
NextLock ==
    \/ Next
    \/ \E y \in UrlYears : lock_year(y) /\ ExportIdle

SpecLock == Init /\ [][NextLock]_vars

\* ----------------------------------------------------------- the export
\* genenga (export_genenga_csv) under the interpreter the module is written
\* for, Python 2: CSVWriter calls str.decode on what csv.writer produced.
\*
\* The text of a column is a sequence of characters; "kanji" stands for one
\* character outside ASCII.  The output file is the sequence of the rows
\* written to it, a row the sequence of its columns: csv.writer's quoting and
\* line ends are left out.

\* Address.zipcode is String(7); SQLite stores a longer or a shorter text as
\* it is, and address_add stores what the form holds.
ZipLen == 7
Zipcode7 == <<"1", "2", "3", "4", "5", "6", "7">>

\* What address_add can have stored in the name and place columns: a form
\* filled in with ASCII text, one with a family name in kanji, and one whose
\* zipcode was left as address_add_page presents it, empty.
PlainForm ==
    [family_name |-> <<"A">>, given_name |-> <<"B">>, joint_name1 |-> <<"C">>,
     joint_name2 |-> <<"D">>, zipcode |-> Zipcode7, address1 |-> <<"E">>,
     address2 |-> <<"F">>]
Forms ==
    {PlainForm,
     [PlainForm EXCEPT !.family_name = <<"kanji">>],
     [PlainForm EXCEPT !.zipcode = << >>]}

\* The options of the genenga command.  "ascii" is an --encoding that has no
\* kanji.
Encodings == {"utf-8", "ascii"}
ExportArgs ==
    [year : UrlYears, later_only : BOOLEAN, exclude_mourning : BOOLEAN,
     split_zipcode : BOOLEAN, encoding : Encodings]

\* The flag computed from the received column instead of the printing column.
FlagOfReceived(target, args) ==
    IF args.exclude_mourning /\ target.mourning = 1
    THEN 0
    ELSE IF args.later_only
         THEN IF target.received = 2 THEN 1 ELSE 0
         ELSE IF target.received > 0 THEN 1 ELSE 0

\* flag, as lines 390-400 compute it.
Flag(target, args) ==
    IF args.exclude_mourning /\ target.mourning = 1
    THEN 0
    ELSE IF args.later_only
         THEN IF target.printing = 2 THEN 1 ELSE 0
         ELSE IF target.printing > 0 THEN 1 ELSE 0

\* str(flag)
Str(flag) == IF flag = 1 THEN <<"1">> ELSE <<"0">>

\* row, as lines 402-417 build it; target.address is the addresses row the
\* target's address_id names.
Row(target, args) ==
    LET address == book[target.address_id]
        row == <<Str(Flag(target, args)), address.family_name, address.given_name,
                 address.joint_name1, address.address1, address.address2>>
    IN  IF args.split_zipcode
        THEN row \o [i \in 1..Len(address.zipcode) |-> <<address.zipcode[i]>>]
        ELSE Append(row, address.zipcode)

\* order_by(Nenga.id)
RECURSIVE OrderById(_)
OrderById(rows) ==
    IF rows = {}
    THEN << >>
    ELSE LET first == CHOOSE n \in rows : \A m \in rows : n.id <= m.id
         IN  <<first>> \o OrderById(rows \ {first})

\* The query without filter_by(year=args.year).
TargetsOfAllYears(table, args) == OrderById(table)

\* session.query(Nenga).filter_by(year=args.year).order_by(Nenga.id).all()
ExportTargets(table, args) == OrderById({n \in table : n.year = args.year})

\* The rows the loop hands to writer.write, in its order.
ExportRows(table, args) ==
    LET targets == ExportTargets(table, args)
    IN  [i \in 1..Len(targets) |-> Row(targets[i], args)]

\* stream.write(data) on a file opened with encoding=args.encoding raises
\* UnicodeEncodeError when the encoding has no code for a character.
Encodes(row, encoding) ==
    \/ encoding = "utf-8"
    \/ \A i \in 1..Len(row) : \A j \in 1..Len(row[i]) : row[i][j] # "kanji"

\* What the loop has written when it ends: every row, or the rows before the
\* first one that stream.write refuses.
Written(rows, encoding) ==
    LET bad == {i \in 1..Len(rows) : ~Encodes(rows[i], encoding)}
    IN  IF bad = {}
        THEN rows
        ELSE SubSeq(rows, 1, (CHOOSE i \in bad : \A j \in bad : i <= j) - 1)

\* python app.py genenga -o ... : io.open(args.output, mode="w") creates or
\* empties the file at the output path itself, each row goes to it as soon as
\* it is built, and the with statement closes it, written rows included,
\* when an exception leaves the loop.
export_genenga_csv(args) ==
    LET rows == ExportRows(nenga, args)
    IN  /\ file' = [exists |-> TRUE, rows |-> Written(rows, args.encoding)]
        /\ result' = IF Written(rows, args.encoding) = rows
                     THEN "exported"
                     ELSE "UnicodeEncodeError"
        /\ UNCHANGED <<addresses, available, years, nenga, now, pc, nextyear,
                       current_at_call, session, edits, book>>

\* The stores the export is run on: card records 1..MaxTargetId, any of them
\* present, for addresses of the book and years of the store, with the status
\* values a bulk edit can have written.  The export compares mourning with 1
\* and nothing else, so 0 stands for every value that is not 1; it never
\* reads received, which is left as init_nextyear writes it.
ExportColumns ==
    [address_id : 1..MaxAddressId, year : UrlYears, printing : 0..MaxValue,
     received : {0}, mourning : {0, 1}]
RecordOf(id, c) ==
    [id |-> id, address_id |-> c.address_id, year |-> c.year,
     printing |-> c.printing, received |-> c.received, mourning |-> c.mourning]
ExportTables(ids) ==
    {{RecordOf(i, f[i]) : i \in ids} : f \in [ids -> ExportColumns]}

InitExport ==
    /\ addresses = {[id |-> i, person_id |-> 1] : i \in 1..MaxAddressId}
    /\ available = (1 :> 1)
    /\ years = [y \in UrlYears |-> 0]
    /\ \E ids \in SUBSET (1..MaxTargetId) : nenga \in ExportTables(ids)
    /\ now = MaxTick
    /\ pc = "idle"
    /\ nextyear = 0
    /\ current_at_call = [y \in UrlYears |-> {n.address_id : n \in NengaOfYear(y)}]
    /\ session = "active"
    /\ result = "none"
    /\ edits = 0
    /\ book \in [1..MaxAddressId -> Forms]
    /\ file = NoFile

NextExport == \E args \in ExportArgs : export_genenga_csv(args)

SpecExport == InitExport /\ [][NextExport]_vars

\* ---------------------------------------------------------- the claims
\* How a call ends.  A handler that returns ends with "redirect"; the
\* exceptions of the storage layer (sqlalchemy.exc) are the storage errors.
StorageErrors == {"IntegrityError", "InvalidRequestError"}
Years == 1..(MaxTick + 1)
StatusColumns == {"printing", "received", "mourning"}
InDomain(column_name, v) ==
    IF column_name = "mourning" THEN v \in {0, 1} ELSE v \in {0, 1, 2}
OwnIds(rows, person_id) == {a.id : a \in {x \in rows : x.person_id = person_id}}

\* C1: rollover is all-or-nothing.  In every reachable state, for every year
\* Y, either the Year row Y exists together with a Nenga row of Y for every
\* address that was current when init_nextyear was called for Y, or neither
\* the Year row Y nor any Nenga row of Y exists.
C1_RolloverAllOrNothing ==
    \A y \in Years :
        \/ /\ y \in DOMAIN years
           /\ \A aid \in current_at_call[y] :
                \E n \in nenga : n.year = y /\ n.address_id = aid
        \/ /\ y \notin DOMAIN years
           /\ NengaOfYear(y) = {}

\* C2: a call of init_nextyear for a year whose Year row exists fails with
\* the "already initialized" ValueError, and the Nenga rows of that year are
\* the same after the call as before it.
C2_SecondInitFails ==
    [][(init_nextyear_year /\ (now + 1) \in DOMAIN years)
        => /\ result' = "ValueError: already initialized"
           /\ pc' = "idle"
           /\ {n \in nenga' : n.year = now + 1} = {n \in nenga : n.year = now + 1}
           /\ years' = years]_vars

\* C2's case: the command has just failed for a year that has Nenga rows.
C2_Witness ==
    /\ result = "ValueError: already initialized"
    /\ (now + 1) \in DOMAIN years
    /\ NengaOfYear(now + 1) # {}

\* C3: when init_nextyear has succeeded for Y, the Nenga rows of Y are
\* exactly one row for each address that was current at call time, no row
\* for any other address, each with printing = 1, received = 0, mourning = 0.
C3_RolloverRows ==
    [][init_nextyear_nenga
        => LET rows == {n \in nenga' : n.year = nextyear}
           IN  /\ \A aid \in current_at_call[nextyear] :
                    Cardinality({n \in rows : n.address_id = aid}) = 1
               /\ \A n \in rows :
                    /\ n.address_id \in current_at_call[nextyear]
                    /\ n.printing = 1 /\ n.received = 0 /\ n.mourning = 0]_vars

\* What the rollover does add (checked, not a claim of its own): the rows of
\* the second commit are one per address current at call time, with the
\* default values, for the year of the command.
RolloverAddsDefaults ==
    [][init_nextyear_nenga
        => LET added == nenga' \ nenga
           IN  /\ nenga \subseteq nenga'
               /\ \A aid \in current_at_call[nextyear] :
                    Cardinality({n \in added : n.address_id = aid}) = 1
               /\ \A n \in added :
                    /\ n.address_id \in current_at_call[nextyear]
                    /\ n.year = nextyear
                    /\ n.printing = 1 /\ n.received = 0 /\ n.mourning = 0]_vars

\* C4: address_delete of an address that is not current but has a Nenga row
\* fails with InUse (it ends in an error that is not a storage error), and
\* the address and the Nenga rows stay as they are.
C4_RetireWithHistoryInUse ==
    [][\A p \in People, aid \in 1..MaxAddressId :
        (/\ address_delete(p, aid)
         /\ session = "active"
         /\ aid \in AddressIds
         /\ ~IsAvailable(aid)
         /\ NengasOf(aid) # {})
        => /\ result' # "redirect"
           /\ result' \notin StorageErrors
           /\ addresses' = addresses
           /\ nenga' = nenga]_vars

\* C5: address_delete of an address that is current for its person fails
\* with InUse (it ends in an error that is not a storage error) and leaves
\* the addresses, the current designations and the Nenga rows unchanged.
C5_RetireCurrentInUse ==
    [][\A p \in People, aid \in 1..MaxAddressId :
        (/\ address_delete(p, aid)
         /\ session = "active"
         /\ aid \in AddressIds
         /\ IsAvailable(aid))
        => /\ result' # "redirect"
           /\ result' \notin StorageErrors
           /\ addresses' = addresses
           /\ available' = available
           /\ nenga' = nenga]_vars

\* What address_delete does keep (checked, not a claim of its own): a current
\* address, a referenced address and their rows survive every call.
RetireKeepsUsedAddresses ==
    [][\A p \in People, aid \in 1..MaxAddressId :
        (address_delete(p, aid) /\ (IsAvailable(aid) \/ NengasOf(aid) # {}))
        => /\ addresses' = addresses
           /\ available' = available
           /\ nenga' = nenga]_vars

\* C6: when address_activate(P, B) has returned for an address B of P, B is
\* P's current address, and every other address A of P, the one that was
\* current before included, is still an address of P and is current for
\* nobody.
C6_SetCurrentSwitches ==
    [][\A p \in People, b \in 1..MaxAddressId :
        (/\ address_activate(p, b)
         /\ session = "active"
         /\ b \in OwnIds(addresses, p))
        => /\ p \in DOMAIN available'
           /\ available'[p] = b
           /\ \A a \in OwnIds(addresses, p) \ {b} :
                /\ a \in OwnIds(addresses', p)
                /\ \A q \in DOMAIN available' : available'[q] # a]_vars

\* C6's case: a person whose current address is B owns another address A
\* that was current at a rollover, so A was made current and B after it.
C6_Witness ==
    \E p \in DOMAIN available :
        \E a \in OwnIds(addresses, p) :
            /\ a # available[p]
            /\ NengasOf(a) # {}
            /\ result = "redirect"

\* C7: address_activate(P, A) for an A that is no address of P fails with
\* NotFound (it ends in an error that is not a storage error), and nobody's
\* current address changes.
C7_SetCurrentNotFound ==
    [][\A p \in People, aid \in 1..MaxAddressId :
        (/\ address_activate(p, aid)
         /\ session = "active"
         /\ aid \notin OwnIds(addresses, p))
        => /\ result' # "redirect"
           /\ result' \notin StorageErrors
           /\ available' = available]_vars

\* What address_activate does keep (checked, not a claim of its own): with an
\* A that is no address of P, nobody's current address changes.
SetCurrentForeignKeeps ==
    [][\A p \in People, aid \in 1..MaxAddressId :
        (address_activate(p, aid) /\ aid \notin OwnIds(addresses, p))
        => available' = available]_vars

\* C8: a bulk edit that names a field outside printing, received, mourning,
\* or a value outside the field's domain, fails with InvalidArgument (it
\* ends in an error that is not a storage error) and changes no Nenga row.
C8_BulkEditValidates ==
    [][\A act \in BulkActions, t \in TargetSets, y \in UrlYears :
        (/\ session = "active"
         /\ \/ Len(act) # 2
            \/ act[1] \notin StatusColumns
            \/ ~IsInt(act[2])
            \/ ~InDomain(act[1], IntOf(act[2]))
         /\ nenga_bulk_edit(y, act, t))
        => /\ result' # "redirect"
           /\ result' \notin StorageErrors
           /\ nenga' = nenga]_vars

\* C9: a bulk edit with a recognized field and a value of its domain sets
\* that field to the value on every Nenga row whose id is a target, ignores
\* the targets that are no row, and leaves every other field of those rows
\* and every other row as they were.
C9_BulkEditSetsField ==
    [][\A act \in BulkActions, t \in TargetSets, y \in UrlYears :
        (/\ session = "active"
         /\ Len(act) = 2
         /\ act[1] \in StatusColumns
         /\ IsInt(act[2])
         /\ InDomain(act[1], IntOf(act[2]))
         /\ nenga_bulk_edit(y, act, t))
        => /\ result' = "redirect"
           /\ Cardinality(nenga') = Cardinality(nenga)
           /\ \A n \in nenga :
                IF n.id \in t
                THEN \E m \in nenga' :
                        /\ m[act[1]] = IntOf(act[2])
                        /\ \A f \in (DOMAIN n) \ {act[1]} : m[f] = n[f]
                ELSE n \in nenga'
           /\ UNCHANGED <<addresses, available, years>>]_vars

\* C9's case: one row has been set to printing = 2 by a bulk edit and kept
\* its other fields, and another row is as the rollover made it.
C9_Witness ==
    /\ edits = 1
    /\ \E n \in nenga, m \in nenga :
        /\ n.id # m.id
        /\ n.printing = 2 /\ n.received = 0 /\ n.mourning = 0
        /\ m.printing = 1 /\ m.received = 0 /\ m.mourning = 0

\* C10: a bulk edit submitted for year Y changes only Nenga rows of year Y.
C10_BulkEditOnlyItsYear ==
    [][\A y \in UrlYears, act \in BulkActions, t \in TargetSets :
        nenga_bulk_edit(y, act, t)
        => \A n \in nenga : n.year # y => n \in nenga']_vars

\* C10 as amended: a bulk edit changes only the Nenga rows whose id is a
\* target, whatever year it is submitted for; with a status field it changes
\* every such row, a row of another year than the submitted one included.
C10_BulkEditOnlyItsTargets ==
    [][\A t \in TargetSets, act \in BulkActions, y \in UrlYears :
        \/ /\ \A n \in nenga : n.id \notin t => n \in nenga'
           /\ (/\ result' = "redirect"
               /\ Len(act) = 2
               /\ act[1] \in StatusColumns
               /\ IsInt(act[2]))
              => \A n \in nenga :
                    n.id \in t => [n EXCEPT ![act[1]] = IntOf(act[2])] \in nenga'
        \/ ~nenga_bulk_edit(y, act, t)]_vars

\* C10's case: two rows of different years, one changed by the bulk edit
\* and one as the rollover made it.
C10_Witness ==
    /\ edits = 1
    /\ \E n \in nenga, m \in nenga :
        /\ n.year # m.year
        /\ n.received = 1
        /\ m.received = 0

\* C11: the export's should-print flag.  For every Nenga row of the store and
\* every combination of the options, the flag the export computes is 1
\* exactly when (mourning is not 1 or exclude_mourning is unset) and
\* (printing = 2 if later_only is set, printing in {1, 2} otherwise), and 0 in
\* every other case.
C11_ExportFlag ==
    \A n \in nenga : \A args \in ExportArgs :
        Flag(n, args) =
            IF /\ n.mourning # 1 \/ ~args.exclude_mourning
               /\ IF args.later_only THEN n.printing = 2 ELSE n.printing \in {1, 2}
            THEN 1
            ELSE 0

\* The same for the rows whose printing is one of 0, 1, 2.
ExportFlagOfDomainRows ==
    \A n \in nenga : \A args \in ExportArgs :
        n.printing \in {0, 1, 2} =>
            Flag(n, args) =
                IF /\ n.mourning # 1 \/ ~args.exclude_mourning
                   /\ IF args.later_only THEN n.printing = 2 ELSE n.printing \in {1, 2}
                THEN 1
                ELSE 0

\* The columns of a row that do not depend on split_zipcode: out is the
\* i-th row of the file, written for the i-th card record of the year in
\* the order of the record ids; joint_name2 is no column of it.
LaidOut(out, i, args) ==
    \E n \in NengaOfYear(args.year) :
        /\ Cardinality({m \in NengaOfYear(args.year) : m.id < n.id}) = i - 1
        /\ Len(out) >= 6
        /\ out[1] = Str(Flag(n, args))
        /\ out[2] = book[n.address_id].family_name
        /\ out[3] = book[n.address_id].given_name
        /\ out[4] = book[n.address_id].joint_name1
        /\ out[5] = book[n.address_id].address1
        /\ out[6] = book[n.address_id].address2
        /\ \A k \in 1..Len(out) : out[k] # book[n.address_id].joint_name2
        /\ ~args.split_zipcode =>
              Len(out) = 7 /\ out[7] = book[n.address_id].zipcode

C13_NoPartialFile ==
    result = "UnicodeEncodeError" => file.rows = << >>

\* C19: the export does not depend on received.  For every store that
\* differs from this one only in the received values of its Nenga rows, and
\* for every year and every combination of the options, the export hands the
\* same rows to the writer.
C19_ExportIgnoresReceived ==
    \A args \in ExportArgs :
        \A received \in [{n.id : n \in nenga} -> 0..MaxValue] :
            LET other == {[n EXCEPT !.received = received[n.id]] : n \in nenga}
            IN  ExportRows(other, args) = ExportRows(nenga, args)

\* An export has written a row with flag 1 and a row with flag 0.
C19_Witness ==
    /\ result = "exported"
    /\ Len(file.rows) = 2
    /\ file.rows[1][1] = <<"1">>
    /\ file.rows[2][1] = <<"0">>

\* C14: in every reachable state every Nenga row references an address that
\* is in the addresses table and a year that is in the years table.
C14_NengaReferences ==
    \A n \in nenga : n.address_id \in AddressIds /\ n.year \in DOMAIN years

\* The addresses designated current for a person: the addresses of the
\* person that the person's AvailableAddress row names.
CurrentIds(rows, pointers, person_id) ==
    {a.id : a \in {x \in rows : /\ x.person_id = person_id
                                /\ person_id \in DOMAIN pointers
                                /\ pointers[person_id] = x.id}}

\* C15: once address_activate has succeeded for a person, the person has
\* exactly one current address in every state that follows: a step that
\* starts with exactly one current address for the person, or that is a
\* successful address_activate of the person for one of the person's
\* addresses, ends with exactly one.  Every state between two commits is a
\* state of the model, so this covers the inside of a later
\* address_activate, which is one commit.
C15_OneCurrentAddress ==
    [][\A p \in People :
        (\/ Cardinality(CurrentIds(addresses, available, p)) = 1
         \/ \E a \in OwnIds(addresses, p) :
               /\ session = "active"
               /\ address_activate(p, a))
        => Cardinality(CurrentIds(addresses', available', p)) = 1]_vars

\* C15's case: a person has a current address and both of the person's two
\* addresses have card records, so each was current at a rollover and
\* address_activate has switched between them.
C15_Witness ==
    \E p \in DOMAIN available :
        /\ Cardinality(CurrentIds(addresses, available, p)) = 1
        /\ Cardinality(OwnIds(addresses, p)) = 2
        /\ \A a \in OwnIds(addresses, p) : NengasOf(a) # {}

\* C16: in every reachable state there is at most one Nenga row for each
\* pair of an address and a year.
C16_OneRowPerAddressYear ==
    \A n \in nenga : \A m \in nenga :
        (n.address_id = m.address_id /\ n.year = m.year) => n = m

\* C17: address_add and address_activate change no Nenga row and no address
\* that exists: after either, the card records are the ones before it, and
\* every address before it is still in the table as it was, the addresses the
\* card records reference among them.
C17_AddAndSetCurrentFrame ==
    [][\A p \in People :
        (\/ address_add(p)
         \/ \E a \in 1..MaxAddressId : address_activate(p, a))
        => /\ nenga' = nenga
           /\ \A x \in addresses : x \in addresses'
           /\ \A n \in nenga' :
                {x \in addresses' : x.id = n.address_id}
                    = {x \in addresses : x.id = n.address_id}]_vars

\* C17's case: after a switch, a card record of a rolled-over year
\* references the address that was current at that year's rollover and is
\* current no longer.
C17_Witness ==
    /\ result = "redirect"
    /\ \E n \in nenga :
        /\ n.year \in DOMAIN current_at_call
        /\ n.address_id \in current_at_call[n.year]
        /\ n.address_id \in AddressIds
        /\ \A p \in DOMAIN available : available[p] # n.address_id
        /\ \E p \in DOMAIN available :
              n.address_id \in OwnIds(addresses, p)

\* C18: a bulk edit never changes a Nenga row whose year is locked.  For
\* every Nenga row of a year with lock = 1, a bulk edit submitted for that
\* year that sets a status field to a value of its domain leaves the row as
\* it was.
C18_LockedYearFrozen ==
    [][\A n \in nenga :
        (/\ n.year \in DOMAIN years
         /\ years[n.year] = 1
         /\ edits' = edits + 1
         /\ \E c \in StatusColumns, v \in 0..MaxValue, t \in TargetSets :
               /\ InDomain(c, v)
               /\ nenga_bulk_edit(n.year, <<c, <<v>>>>, t))
        => n \in nenga']_vars
====
